---- MODULE Spec2Model ----
(***************************************************************************)
(* A model of the proof-of-age QR demo: the Ed25519 signed-credential      *)
(* utilities (crypto.ts), the create page and the verify page.             *)
(*                                                                         *)
(* Strings are sequences of character codes, byte arrays are sequences of  *)
(* 0..255.  JavaScript millisecond timestamps exceed the model checker's   *)
(* integer range, so an instant is held as [s, ms]: whole seconds since    *)
(* the epoch and the 0..999 milliseconds within the second.                *)
(***************************************************************************)
EXTENDS Integers, Sequences, FiniteSets, TLC

(***************************************************************************)
(* Bounds of the model.                                                    *)
(***************************************************************************)
\* Bytes kept of an Ed25519 signature (the library produces 64).
SigLen == 3
\* The clock ranges over BaseNow + k years + d seconds, k <= MaxYears, d <= MaxDrift.
MaxYears == 1
MaxDrift == 1

(***************************************************************************)
(* Optional values (null / undefined against a value).                     *)
(***************************************************************************)
Null == <<>>
Some(x) == <<x>>
Val(o) == o[1]

(***************************************************************************)
(* Instants.                                                               *)
(***************************************************************************)
Instant(sec, msec) == [s |-> sec, ms |-> msec]

\* a - b in milliseconds.
MsSub(a, b) ==
  LET t == a.ms - b.ms
  IN  [s |-> (a.s - b.s) + (t \div 1000), ms |-> t % 1000]

\* a + b in milliseconds.
MsAdd(a, b) ==
  LET t == a.ms + b.ms
  IN  [s |-> (a.s + b.s) + (t \div 1000), ms |-> t % 1000]

\* Math.floor(a / (dSec * 1000)) for a divisor of whole seconds.
MsFloorDiv(a, dSec) == a.s \div dSec

Later(a, b) == a.s > b.s \/ (a.s = b.s /\ a.ms > b.ms)

\* 2024-01-01T00:00:00Z, in seconds.
BaseNow == 19723 * 86400

\* A year of 365.25 days where 365 days are meant.
oneYear_julian == 36525 * 864
\* oneYear = 365 * 24 * 60 * 60 * 1000 ms, in seconds.
oneYear == 365 * 24 * 60 * 60

\* 365.25 * 24 * 60 * 60 * 1000 ms, in seconds (365.25 * 86400 = 36525 * 864).
ageYear == 36525 * 864

MsValues == {0, 999}
ClockSeconds ==
  {BaseNow + k * (365 * 86400) + d : k \in 0..MaxYears, d \in 0..MaxDrift}
Instants == {Instant(sec, msec) : sec \in ClockSeconds, msec \in MsValues}

\* Birth instants: an adult (2000-01-01), the instant 18 * 365.25 days before
\* BaseNow, one millisecond after it, 2006-01-01 and 2010-01-01.
Births ==
  { Instant(10957 * 86400, 0),
    Instant(BaseNow - 18 * ageYear, 0),
    Instant(BaseNow - 18 * ageYear, 1),
    Instant(13149 * 86400, 0),
    Instant(14610 * 86400, 0) }

(***************************************************************************)
(* Strings and bytes.                                                      *)
(***************************************************************************)
RECURSIVE Concat(_)
Concat(ss) == IF ss = <<>> THEN <<>> ELSE Head(ss) \o Concat(Tail(ss))

\* Number.prototype.toString() of an integer: decimal digits, "-" first.
RECURSIVE Digits(_)
Digits(n) == IF n < 10 THEN <<48 + n>> ELSE Append(Digits(n \div 10), 48 + (n % 10))
NumberToString(n) == IF n < 0 THEN <<45>> \o Digits(0 - n) ELSE Digits(n)

\* A lowercase hexadecimal digit.
HexDigit(v) == IF v < 10 THEN 48 + v ELSE 87 + v

\* JSON.stringify of a string: the quoted string with its escapes.
QuoteChar(c) ==
  CASE c = 34 -> <<92, 34>>
    [] c = 92 -> <<92, 92>>
    [] c = 8  -> <<92, 98>>
    [] c = 12 -> <<92, 102>>
    [] c = 10 -> <<92, 110>>
    [] c = 13 -> <<92, 114>>
    [] c = 9  -> <<92, 116>>
    [] c < 32 /\ c \notin {8, 9, 10, 12, 13} ->
         <<92, 117, 48, 48, HexDigit(c \div 16), HexDigit(c % 16)>>
    [] OTHER -> <<c>>

RECURSIVE QuoteChars(_)
QuoteChars(str) ==
  IF str = <<>> THEN <<>> ELSE QuoteChar(Head(str)) \o QuoteChars(Tail(str))
QuoteJSONString(str) == <<34>> \o QuoteChars(str) \o <<34>>

\* new TextEncoder().encode(str): UTF-8, for codes below 0x800.
Utf8Char(c) ==
  IF c < 128 THEN <<c>> ELSE <<192 + (c \div 64), 128 + (c % 64)>>
RECURSIVE TextEncodeRange(_, _, _)
TextEncodeRange(str, lo, hi) ==
  IF lo > hi THEN <<>>
  ELSE IF lo = hi THEN Utf8Char(str[lo])
  ELSE LET mid == (lo + hi) \div 2
       IN  TextEncodeRange(str, lo, mid) \o TextEncodeRange(str, mid + 1, hi)
TextEncode(str) == TextEncodeRange(str, 1, Len(str))

\* The names of the model: "Al", "Am", A" (which needs an escape), the
\* empty name and a blank.
Names == { <<65, 108>>, <<65, 109>>, <<65, 34>>, <<>>, <<32>> }

\* "DemoIssuer"
Issuer == <<68, 101, 109, 111, 73, 115, 115, 117, 101, 114>>

(***************************************************************************)
(* crypto.ts: keys and the Ed25519 library.                                *)
(***************************************************************************)
DEMO_PRIVATE_KEY ==
  << 74, 72, 147, 198, 35, 77, 182, 204, 144, 172, 106, 178, 80, 13, 175, 106,
     221, 196, 43, 171, 135, 166, 46, 86, 127, 124, 27, 20, 138, 131, 179, 226 >>

\* The public key RFC 8032 derives from DEMO_PRIVATE_KEY
\* (967de3245d5ef80961be139b0cb47ff5395e0e613b7b6cf18e901f95f0bc4fae).
DEMO_PUBLIC_KEY_derived ==
  << 150, 125, 227, 36, 93, 94, 248, 9, 97, 190, 19, 155, 12, 180, 127, 245,
     57, 94, 14, 97, 59, 123, 108, 241, 142, 144, 31, 149, 240, 188, 79, 174 >>

\* A public key that is the one of DEMO_PRIVATE_KEY.
DEMO_PUBLIC_KEY_matching == DEMO_PUBLIC_KEY_derived

DEMO_PUBLIC_KEY ==
  << 151, 240, 147, 78, 29, 200, 180, 216, 242, 14, 82, 176, 104, 174, 53, 156,
     21, 239, 175, 189, 97, 191, 35, 143, 73, 23, 198, 183, 40, 178, 64, 72 >>

\* The private keys that exist: nobody holds another one.
PrivateKeys == {DEMO_PRIVATE_KEY}

\* ed25519.getPublicKey: the key pair relation of the library, as a table.
getPublicKey(priv) ==
  IF priv = DEMO_PRIVATE_KEY THEN DEMO_PUBLIC_KEY_derived ELSE <<>>

\* A digest of the message bytes, standing for SHA-512: a weighted sum that
\* every change of one byte changes.
RECURSIVE DigestRange(_, _, _)
DigestRange(bytes, lo, hi) ==
  IF lo > hi THEN 0
  ELSE IF lo = hi THEN bytes[lo] * (lo * lo + 3 * lo + 17)
  ELSE LET mid == (lo + hi) \div 2
       IN  DigestRange(bytes, lo, mid) + DigestRange(bytes, mid + 1, hi)
Digest(bytes) == (Len(bytes) + DigestRange(bytes, 1, Len(bytes))) % 16777213

\* ed25519.sign(message, privateKey): deterministic in (message, key).
Ed25519Sign(msg, priv) ==
  LET d == Digest(msg)
  IN  [i \in 1..SigLen |-> ((d \div (256 ^ (i - 1))) + priv[i]) % 256]

Ed25519LengthOk(sig) == Len(sig) = SigLen

\* ed25519.verify(signature, message, publicKey): true exactly for the
\* signature of the message under the private key of publicKey.  A
\* signature of another length makes the library throw (see verifyCredential).
Ed25519Verify(sig, msg, pub) ==
  \E k \in PrivateKeys : getPublicKey(k) = pub /\ sig = Ed25519Sign(msg, k)

(***************************************************************************)
(* crypto.ts: credentials.                                                 *)
(***************************************************************************)
\* An age in years of 365 days, where the code divides by 365.25 days.
AgeAt_365(now, dateOfBirth) == MsFloorDiv(MsSub(now, dateOfBirth), oneYear)

\* Math.floor((now - dateOfBirth.getTime()) / (365.25 * 24 * 60 * 60 * 1000))
AgeAt(now, dateOfBirth) == MsFloorDiv(MsSub(now, dateOfBirth), ageYear)

\* The property names "iss", "iat", "exp", "name" and "over18".
KeyIss == <<105, 115, 115>>
KeyIat == <<105, 97, 116>>
KeyExp == <<101, 120, 112>>
KeyName == <<110, 97, 109, 101>>
KeyOver18 == <<111, 118, 101, 114, 49, 56>>

\* The own properties of the object literal, in the order it creates them.
CredentialKeys == <<KeyIss, KeyIat, KeyExp, KeyName, KeyOver18>>

\* The credential object: its properties, and keys, the order in which the
\* object enumerates them.
createVerifiableCredential(name, dateOfBirth, now) ==
  LET age == AgeAt(now, dateOfBirth)
      over18 == age >= 18
  IN  [ iss |-> Issuer,
        iat |-> MsFloorDiv(now, 1),
        exp |-> MsFloorDiv(MsAdd(now, Instant(oneYear, 0)), 1),
        name |-> name,
        over18 |-> over18,
        keys |-> CredentialKeys ]

validateAge(dateOfBirth, now) ==
  LET age == AgeAt(now, dateOfBirth)
  IN  [isValid |-> age >= 18, age |-> age]

\* JSON.stringify of one property of a credential: "key":value.
StringifyMember(c, key) ==
  QuoteJSONString(key) \o <<58>> \o
    ( CASE key = KeyIss -> QuoteJSONString(c.iss)
        [] key = KeyIat -> NumberToString(c.iat)
        [] key = KeyExp -> NumberToString(c.exp)
        [] key = KeyName -> QuoteJSONString(c.name)
        [] key = KeyOver18 ->
             IF c.over18 THEN <<116, 114, 117, 101>> ELSE <<102, 97, 108, 115, 101>> )

RECURSIVE StringifyMembers(_, _)
StringifyMembers(c, keys) ==
  IF keys = <<>> THEN <<>>
  ELSE StringifyMember(c, Head(keys))
         \o (IF Len(keys) > 1 THEN <<44>> ELSE <<>>)
         \o StringifyMembers(c, Tail(keys))

\* JSON.stringify(credential): the properties in the order of the object.
StringifyCredential(c) == <<123>> \o StringifyMembers(c, c.keys) \o <<125>>

\* b.toString(16).padStart(2, '0'), joined.
RECURSIVE BytesToHex(_)
BytesToHex(bytes) ==
  IF bytes = <<>> THEN <<>>
  ELSE <<HexDigit(Head(bytes) \div 16), HexDigit(Head(bytes) % 16)>>
         \o BytesToHex(Tail(bytes))

signCredential(credential) ==
  LET payload == StringifyCredential(credential)
      payloadBytes == TextEncode(payload)
      signature == Ed25519Sign(payloadBytes, DEMO_PRIVATE_KEY)
  IN  [payload |-> credential, signature |-> Some(BytesToHex(signature))]

(***************************************************************************)
(* crypto.ts: verifyCredential.                                            *)
(***************************************************************************)
Returned(v) == [threw |-> FALSE, value |-> v]
Thrown == [threw |-> TRUE, value |-> FALSE]

LineTerminator(c) == c \in {10, 13, 8232, 8233}

\* signature.match(/.{2}/g): successive pairs of characters that are not line
\* terminators; a character left over is dropped.  No pair at all is null.
RECURSIVE Match2(_)
Match2(str) ==
  IF Len(str) < 2 THEN <<>>
  ELSE IF ~LineTerminator(str[1]) /\ ~LineTerminator(str[2])
       THEN << <<str[1], str[2]>> >> \o Match2(SubSeq(str, 3, Len(str)))
       ELSE Match2(Tail(str))

WhiteSpace(c) ==
  c \in {9, 10, 11, 12, 13, 32, 160, 5760, 8232, 8233, 8239, 8287, 12288, 65279}
    \/ (c >= 8192 /\ c <= 8202)

\* The value of a hexadecimal digit of either case, -1 for another character.
HexVal(c) ==
  CASE c >= 48 /\ c <= 57  -> c - 48
    [] c >= 65 /\ c <= 70  -> c - 55
    [] c >= 97 /\ c <= 102 -> c - 87
    [] OTHER -> 0 - 1

\* parseInt(byte, 16) of a two-character string; Null is NaN.  Leading white
\* space and a sign are skipped, a "0x" prefix is stripped, and the digits up
\* to the first character that is none are read.
parseInt16(pair) ==
  LET c1 == pair[1]
      c2 == pair[2]
  IN  CASE WhiteSpace(c1) ->
             IF HexVal(c2) >= 0 THEN Some(HexVal(c2)) ELSE Null
        [] c1 = 43 ->
             IF HexVal(c2) >= 0 THEN Some(HexVal(c2)) ELSE Null
        [] c1 = 45 ->
             IF HexVal(c2) >= 0 THEN Some(0 - HexVal(c2)) ELSE Null
        [] HexVal(c1) >= 0 ->
             IF c1 = 48 /\ c2 \in {88, 120} THEN Null
             ELSE IF HexVal(c2) >= 0 THEN Some(16 * HexVal(c1) + HexVal(c2))
             ELSE Some(HexVal(c1))
        [] OTHER -> Null

\* An element of new Uint8Array([...]): NaN is 0, the rest modulo 256.
ToUint8(n) == IF n = Null THEN 0 ELSE Val(n) % 256

RECURSIVE HexPairsToBytes(_)
HexPairsToBytes(pairs) ==
  IF pairs = <<>> THEN <<>>
  ELSE <<ToUint8(parseInt16(Head(pairs)))>> \o HexPairsToBytes(Tail(pairs))

\* The try block of verifyCredential: what it returns, or that it threw.
verifyCredentialTry(signedCredential) ==
  LET payload == StringifyCredential(signedCredential.payload)
      payloadBytes == TextEncode(payload)
  IN  IF signedCredential.signature = Null THEN Thrown
      ELSE LET pairs == Match2(Val(signedCredential.signature))
           IN  IF pairs = <<>> THEN Thrown
               ELSE LET signatureBytes == HexPairsToBytes(pairs)
                    IN  IF ~Ed25519LengthOk(signatureBytes) THEN Thrown
                        ELSE Returned(Ed25519Verify(signatureBytes, payloadBytes,
                                                    DEMO_PUBLIC_KEY))

\* verifyCredential without its try / catch.
verifyCredential_nocatch(signedCredential) ==
  verifyCredentialTry(signedCredential)

\* verifyCredential dropping the library's answer.
verifyCredential_ignoresResult(signedCredential) ==
  LET r == verifyCredentialTry(signedCredential)
  IN  IF r.threw THEN Returned(FALSE) ELSE Returned(TRUE)

verifyCredential(signedCredential) ==
  LET r == verifyCredentialTry(signedCredential)
  IN  IF r.threw THEN Returned(FALSE) ELSE r

\* isCredentialExpired with <= for <.
isCredentialExpired_lte(credential, now) == credential.exp <= MsFloorDiv(now, 1)

isCredentialExpired(credential, now) == credential.exp < MsFloorDiv(now, 1)

(***************************************************************************)
(* Dates.                                                                  *)
(***************************************************************************)
\* The days from 1970-01-01 to the civil date y-m-d.
DaysFromCivil(y, m, d) ==
  LET yy  == IF m <= 2 THEN y - 1 ELSE y
      era == yy \div 400
      yoe == yy - era * 400
      doy == (153 * (IF m > 2 THEN m - 3 ELSE m + 9) + 2) \div 5 + d - 1
      doe == yoe * 365 + yoe \div 4 - yoe \div 100 + doy
  IN  era * 146097 + doe - 719468

\* The civil year of the day `days` after 1970-01-01.
YearOfDays(days) ==
  LET z   == days + 719468
      era == z \div 146097
      doe == z - era * 146097
      yoe == (doe - doe \div 1460 + doe \div 36524 - doe \div 146096) \div 365
      doy == doe - (365 * yoe + yoe \div 4 - yoe \div 100)
      mp  == (5 * doy + 2) \div 153
      m   == IF mp < 10 THEN mp + 3 ELSE mp - 9
  IN  yoe + era * 400 + (IF m <= 2 THEN 1 ELSE 0)

\* new Date("YYYY-MM-DD"): midnight UTC of the date.
DateFromInput(date) == Instant(DaysFromCivil(date.y, date.m, date.d) * 86400, 0)

\* Date.prototype.getFullYear(): the year in local time, tz minutes east of UTC.
getFullYear(instant, tz) == YearOfDays((instant.s + tz * 60) \div 86400)

\* String.prototype.trim().
RECURSIVE TrimStart(_)
TrimStart(str) ==
  IF str # <<>> /\ WhiteSpace(Head(str)) THEN TrimStart(Tail(str)) ELSE str
RECURSIVE TrimEnd(_)
TrimEnd(str) ==
  IF str # <<>> /\ WhiteSpace(str[Len(str)])
  THEN TrimEnd(SubSeq(str, 1, Len(str) - 1)) ELSE str
Trim(str) == TrimEnd(TrimStart(str))

(***************************************************************************)
(* zkProof.ts (the commitment proof engine).                               *)
(***************************************************************************)
MinAge == 18

\* "ZKDemoIssuer"
ZKIssuer == <<90, 75, 68, 101, 109, 111, 73, 115, 115, 117, 101, 114>>

\* The random salts of the model.
MaxSalt == 2
Salts == 1..MaxSalt

\* A hash of a byte string, as a hexadecimal string.
Hash(bytes) ==
  LET d == Digest(bytes)
  IN  BytesToHex(<<d % 256, (d \div 256) % 256, (d \div 65536) % 256>>)

getCurrentYear(now, tz) == getFullYear(now, tz)

validateBirthYearForZK(birthYear, now, tz) ==
  LET age == getCurrentYear(now, tz) - birthYear
  IN  [isValid |-> age >= MinAge, age |-> age]

\* commitment = Hash(birthYear || salt)
Commitment(birthYear, salt) ==
  Hash(TextEncode(NumberToString(birthYear) \o <<58>> \o NumberToString(salt)))

\* The public signals with the minimum age before the reference year.
PublicSignals_swapped(referenceYear, minAge, commitment) ==
  << <<49>>, NumberToString(minAge), NumberToString(referenceYear), commitment >>

\* publicSignals = ["1", referenceYear, minAge, commitment], as strings.
PublicSignals(referenceYear, minAge, commitment) ==
  << <<49>>, NumberToString(referenceYear), NumberToString(minAge), commitment >>

\* The integrity structure derived from {commitment, publicSignals}, as a
\* term: two of them are equal exactly when they were derived from the same
\* commitment and the same public signals.
IntegrityOf(commitment, publicSignals) ==
  [of |-> <<commitment, publicSignals>>]

\* generateZKProof(birthYear, currentYear, name), called at the instant now
\* with the salt drawn; it fails below the minimum age.
generateZKProof(birthYear, currentYear, name, now, salt) ==
  IF currentYear - birthYear < MinAge THEN Null
  ELSE LET commitment == Commitment(birthYear, salt)
           publicSignals == PublicSignals(currentYear, MinAge, commitment)
       IN  Some([ zkProof |-> [ proof |-> IntegrityOf(commitment, publicSignals),
                                publicSignals |-> publicSignals ],
                  metadata |-> [ iss |-> ZKIssuer,
                                 name |-> name,
                                 iat |-> MsFloorDiv(now, 1),
                                 exp |-> MsFloorDiv(now, 1) + 365 * 86400 ],
                  commitment |-> commitment ])

(***************************************************************************)
(* qr.ts: the transport of a signed credential as JSON text.               *)
(***************************************************************************)
\* JSON.stringify(signedCredential): an absent signature is left out.
StringifySigned(sc) ==
  <<123>> \o QuoteJSONString(<<112, 97, 121, 108, 111, 97, 100>>) \o <<58>>
    \o StringifyCredential(sc.payload)
    \o (IF sc.signature = Null THEN <<>>
        ELSE <<44>> \o QuoteJSONString(<<115, 105, 103, 110, 97, 116, 117, 114, 101>>)
               \o <<58>> \o QuoteJSONString(Val(sc.signature)))
    \o <<125>>

\* The outcome of a parsing step: whether it succeeded, the value, and the
\* position after it.
Parsed(v, next) == [ok |-> TRUE, value |-> v, next |-> next]
ParseError == [ok |-> FALSE, value |-> <<>>, next |-> 0]

\* An unescaping that keeps the backslash of \" and drops the quote.
UnescapeChar_backslash(c) ==
  CASE c = 34 -> 92 [] c = 92 -> 92 [] c = 47 -> 47 [] c = 98 -> 8
    [] c = 102 -> 12 [] c = 110 -> 10 [] c = 114 -> 13 [] c = 116 -> 9
    [] OTHER -> 0

\* The character an escape \c stands for, 0 for none.
UnescapeChar(c) ==
  CASE c = 34 -> 34 [] c = 92 -> 92 [] c = 47 -> 47 [] c = 98 -> 8
    [] c = 102 -> 12 [] c = 110 -> 10 [] c = 114 -> 13 [] c = 116 -> 9
    [] OTHER -> 0

\* The characters of a JSON string from position i up to its closing quote.
RECURSIVE ParseChars(_, _)
ParseChars(text, i) ==
  IF i > Len(text) \/ text[i] < 32 THEN ParseError
  ELSE IF text[i] = 34 THEN Parsed(<<>>, i + 1)
  ELSE IF text[i] # 92
  THEN LET rest == ParseChars(text, i + 1)
       IN  IF rest.ok THEN Parsed(<<text[i]>> \o rest.value, rest.next)
           ELSE ParseError
  ELSE IF i + 1 > Len(text) THEN ParseError
  ELSE IF text[i + 1] = 117
  THEN IF i + 5 > Len(text)
            \/ \E k \in 2..5 : HexVal(text[i + k]) < 0
       THEN ParseError
       ELSE LET code == 4096 * HexVal(text[i + 2]) + 256 * HexVal(text[i + 3])
                          + 16 * HexVal(text[i + 4]) + HexVal(text[i + 5])
                rest == ParseChars(text, i + 6)
            IN  IF rest.ok THEN Parsed(<<code>> \o rest.value, rest.next)
                ELSE ParseError
  ELSE IF UnescapeChar(text[i + 1]) = 0 THEN ParseError
  ELSE LET rest == ParseChars(text, i + 2)
       IN  IF rest.ok
           THEN Parsed(<<UnescapeChar(text[i + 1])>> \o rest.value, rest.next)
           ELSE ParseError

\* The digits of a JSON integer from position i, after the value acc.
RECURSIVE ParseDigits(_, _, _)
ParseDigits(text, i, acc) ==
  IF i <= Len(text) /\ text[i] \in 48..57
  THEN ParseDigits(text, i + 1, 10 * acc + (text[i] - 48))
  ELSE Parsed(acc, i)

\* The word (true, false, null) stands at position i.
WordAt(text, i, word) ==
  i + Len(word) - 1 <= Len(text) /\ SubSeq(text, i, i + Len(word) - 1) = word

\* JSON.parse of the value at position i.  An object is the sequence of its
\* members <<key, value>> in the order of the text.
RECURSIVE ParseValue(_, _)
RECURSIVE ParseMembers(_, _)
ParseValue(text, i) ==
  IF i > Len(text) THEN ParseError
  ELSE IF text[i] = 34
  THEN LET str == ParseChars(text, i + 1)
       IN  IF str.ok THEN Parsed([t |-> "string", v |-> str.value], str.next)
           ELSE ParseError
  ELSE IF text[i] = 123
  THEN IF i + 1 <= Len(text) /\ text[i + 1] = 125
       THEN Parsed([t |-> "object", v |-> <<>>], i + 2)
       ELSE LET members == ParseMembers(text, i + 1)
            IN  IF members.ok
                THEN Parsed([t |-> "object", v |-> members.value], members.next)
                ELSE ParseError
  ELSE IF text[i] \in 48..57
  THEN LET num == ParseDigits(text, i, 0)
       IN  Parsed([t |-> "number", v |-> num.value], num.next)
  ELSE IF text[i] = 45 /\ i + 1 <= Len(text) /\ text[i + 1] \in 48..57
  THEN LET num == ParseDigits(text, i + 1, 0)
       IN  Parsed([t |-> "number", v |-> 0 - num.value], num.next)
  ELSE IF WordAt(text, i, <<116, 114, 117, 101>>)
  THEN Parsed([t |-> "boolean", v |-> TRUE], i + 4)
  ELSE IF WordAt(text, i, <<102, 97, 108, 115, 101>>)
  THEN Parsed([t |-> "boolean", v |-> FALSE], i + 5)
  ELSE IF WordAt(text, i, <<110, 117, 108, 108>>)
  THEN Parsed([t |-> "null", v |-> FALSE], i + 4)
  ELSE ParseError

ParseMembers(text, i) ==
  IF i > Len(text) \/ text[i] # 34 THEN ParseError
  ELSE LET key == ParseChars(text, i + 1)
       IN  IF ~key.ok \/ key.next > Len(text) \/ text[key.next] # 58
           THEN ParseError
           ELSE LET val == ParseValue(text, key.next + 1)
                IN  IF ~val.ok \/ val.next > Len(text) THEN ParseError
                    ELSE IF text[val.next] = 125
                    THEN Parsed(<< <<key.value, val.value>> >>, val.next + 1)
                    ELSE IF text[val.next] # 44 THEN ParseError
                    ELSE LET rest == ParseMembers(text, val.next + 1)
                         IN  IF rest.ok
                             THEN Parsed(<< <<key.value, val.value>> >> \o rest.value,
                                         rest.next)
                             ELSE ParseError

\* JSON.parse(text), for a text without white space as JSON.stringify
\* writes it: the value, or a SyntaxError.
JSONParseText(text) ==
  LET r == ParseValue(text, 1)
  IN  IF r.ok /\ r.next = Len(text) + 1 THEN Returned(r.value) ELSE Thrown

\* object[key] of a parsed object: the value of the member, or Null.
Member(object, key) ==
  IF \E i \in DOMAIN object.v : object.v[i][1] = key
  THEN Some(object.v[CHOOSE i \in DOMAIN object.v : object.v[i][1] = key][2])
  ELSE Null

\* The parsed object of a credential as a credential object: its properties
\* and the order of its keys.
ObjectToCredential(object) ==
  [ iss |-> Val(Member(object, KeyIss)).v,
    iat |-> Val(Member(object, KeyIat)).v,
    exp |-> Val(Member(object, KeyExp)).v,
    name |-> Val(Member(object, KeyName)).v,
    over18 |-> Val(Member(object, KeyOver18)).v,
    keys |-> [i \in DOMAIN object.v |-> object.v[i][1]] ]

\* The parsed object of a signed credential as a signed credential.
ObjectToSigned(object) ==
  [ payload |-> ObjectToCredential(Val(Member(object, <<112, 97, 121, 108, 111, 97, 100>>))),
    signature |->
      IF Member(object, <<115, 105, 103, 110, 97, 116, 117, 114, 101>>) = Null
      THEN Null
      ELSE Some(Val(Member(object, <<115, 105, 103, 110, 97, 116, 117, 114, 101>>)).v) ]

\* PixelPass.generateQRData and PixelPass.decode: the second gives back the
\* text the first was given.
PixelPassEncode(text) == [pixelPass |-> text]
PixelPassDecodeText(qrData) == qrData.pixelPass

\* encodeToPixelPassQR(signedCredential): what the QR code carries.
encodeToPixelPassQR(sc) == PixelPassEncode(StringifySigned(sc))

\* decodeFromPixelPassQR(qrData), for a QR code of encodeToPixelPassQR.
decodeFromPixelPassQR(qrData) ==
  ObjectToSigned(JSONParseText(PixelPassDecodeText(qrData)).value)

(***************************************************************************)
(* State.                                                                  *)
(***************************************************************************)
VARIABLES
  clock,          \* Date.now(), an instant
  pcS,            \* signed path: "idle", "created", "signed", "verified", "checked"
  input,          \* signed path: the name, birth instant and now of the issuance
  credential,     \* signed path: what createVerifiableCredential returned
  signed,         \* signed path: what signCredential returned
  presented,      \* signed path: the signed credential handed to the verifier
  tamper,         \* signed path: what happened to it on the way
  verifyResult,   \* signed path: the outcome of verifyCredential
  expiredResult,  \* signed path: what isCredentialExpired returned
  cryptoReady,    \* crypto.ts: the module flag of ensureCryptoReady
  tzOffset,       \* the browser's time zone, minutes east of UTC
  formName,       \* CreatePage: the state `name`
  formDateOfBirth,\* CreatePage: the state `dateOfBirth`, a date or Null for ''
  isLoading,      \* CreatePage: the state `isLoading`
  error,          \* CreatePage: the state `error`, <<>> for ''
  qrDataUrl,      \* CreatePage: the state `qrDataUrl`, Null for ''
  zkCredential,   \* CreatePage: the state `zkCredential`
  pcC,            \* CreatePage: where handleGenerateCredential stands
  run,            \* CreatePage: the locals of the last handleGenerateCredential
  pcD,            \* CreatePage: where handleDownloadQR stands
  verificationResult, \* VerifyPage: the state `verificationResult`
  isProcessing,   \* VerifyPage: the state `isProcessing`
  pcV,            \* VerifyPage: where the scan and processQRCode stand
  scan,           \* VerifyPage: the locals of the last processQRCode
  calls,          \* VerifyPage: the checks the last processQRCode evaluated
  callPc,         \* crypto.ts: where each caller of ensureCryptoReady stands
  setupRuns,      \* crypto.ts: how many times setupCrypto has been called
  sha512,         \* crypto.ts: ed25519.hashes.sha512 has been set
  callRun,        \* crypto.ts: argument and outcome of each caller's last call
  isScanning,     \* VerifyPage: useState
  cameraError,    \* VerifyPage: useState
  streamRef,      \* VerifyPage: streamRef.current, a stream or null
  liveStreams,    \* VerifyPage: the streams acquired whose tracks run
  camPc,          \* VerifyPage: where each run of startCamera stands
  camRun,         \* VerifyPage: the locals of each run of startCamera
  latest          \* VerifyPage: the scan or upload started last, null after a reset

signedVars ==
  <<pcS, input, credential, signed, presented, tamper, verifyResult,
    expiredResult, cryptoReady>>

createVars ==
  <<formName, formDateOfBirth, isLoading, error, qrDataUrl, zkCredential, pcC,
    run, pcD>>

cameraVars ==
  <<isScanning, cameraError, streamRef, liveStreams, camPc, camRun, latest>>

verifyVars == <<verificationResult, isProcessing, pcV, scan, calls, cameraVars>>

initVars == <<callPc, setupRuns, sha512, callRun>>

pageVars == <<tzOffset, createVars, verifyVars, initVars>>

vars == <<clock, signedVars, pageVars>>

(***************************************************************************)
(* The signed-credential path: issuer, transport, verifier.                *)
(***************************************************************************)
InitSigned ==
  /\ pcS = "idle"
  /\ input = Null
  /\ credential = Null
  /\ signed = Null
  /\ presented = Null
  /\ tamper = "none"
  /\ verifyResult = Null
  /\ expiredResult = Null
  /\ cryptoReady = FALSE

\* Time passes.
Advance ==
  /\ pcS \in {"idle", "signed"}
  /\ \E t \in Instants : Later(t, clock) /\ clock' = t
  /\ UNCHANGED <<signedVars, pageVars>>

\* createVerifiableCredential(name, dateOfBirth), called at the instant clock.
CreateCredential ==
  /\ pcS = "idle"
  /\ \E name \in Names, dateOfBirth \in Births :
       /\ input' = Some([name |-> name, dateOfBirth |-> dateOfBirth, now |-> clock])
       /\ credential' = Some(createVerifiableCredential(name, dateOfBirth, clock))
  /\ pcS' = "created"
  /\ UNCHANGED <<pageVars, clock, signed, presented, tamper, verifyResult, expiredResult,
                 cryptoReady>>

\* signCredential(credential); the result goes to the verifier as the
\* QR code of encodeToPixelPassQR, read back by decodeFromPixelPassQR.
SignCredential ==
  /\ pcS = "created"
  /\ signed' = Some(signCredential(Val(credential)))
  /\ presented' = Some(decodeFromPixelPassQR(encodeToPixelPassQR(Val(signed'))))
  /\ cryptoReady' = TRUE
  /\ pcS' = "signed"
  /\ UNCHANGED <<pageVars, clock, input, credential, tamper, verifyResult, expiredResult>>

\* c with bit k flipped.
FlipBit(c, k) ==
  IF (c \div (2 ^ k)) % 2 = 1 THEN c - 2 ^ k ELSE c + 2 ^ k

\* Two byte strings of one length that differ in one bit of one byte.
OneBitApart(a, b) ==
  /\ Len(a) = Len(b)
  /\ \E i \in 1..Len(a) :
       /\ \E k \in 0..7 : b[i] = FlipBit(a[i], k)
       /\ \A j \in 1..Len(a) : j # i => a[j] = b[j]

\* In transit: one bit of one character of the signature string flips.
TamperSignatureBit ==
  /\ pcS = "signed" /\ tamper = "none"
  /\ LET sig == Val(Val(presented).signature)
     IN  \E i \in 1..Len(sig), k \in 0..7 :
           presented' = Some([Val(presented) EXCEPT
                                !.signature = Some([sig EXCEPT ![i] = FlipBit(sig[i], k)])])
  /\ tamper' = "signatureBit"
  /\ UNCHANGED <<pageVars, clock, pcS, input, credential, signed, verifyResult, expiredResult,
                 cryptoReady>>

\* Credentials that differ from c in one field.
PayloadVariants(c) ==
  {[c EXCEPT !.name = n] : n \in Names}
    \cup {[c EXCEPT !.iat = c.iat + d] : d \in {0 - 1, 1}}
    \cup {[c EXCEPT !.exp = c.exp + d] : d \in {0 - 1, 1}}
    \cup {[c EXCEPT !.iss = [c.iss EXCEPT ![1] = 69]]}

\* In transit: the payload is replaced by one whose serialized bytes differ
\* from the signed bytes in one bit.
TamperPayloadBit ==
  /\ pcS = "signed" /\ tamper = "none"
  /\ LET c == Val(presented).payload
     IN  \E m \in PayloadVariants(c) :
           /\ OneBitApart(TextEncode(StringifyCredential(c)),
                          TextEncode(StringifyCredential(m)))
           /\ presented' = Some([Val(presented) EXCEPT !.payload = m])
  /\ tamper' = "payloadBit"
  /\ UNCHANGED <<pageVars, clock, pcS, input, credential, signed, verifyResult, expiredResult,
                 cryptoReady>>

\* Signature values that are no 2 * SigLen hexadecimal digits: missing, empty,
\* a character short, a character long, a character that is no digit.
MalformedSignatures(sig) ==
  { Null,
    Some(<<>>),
    Some(SubSeq(sig, 1, Len(sig) - 1)),
    Some(Append(sig, 48)),
    Some([sig EXCEPT ![Len(sig)] = 103]),
    Some([i \in 1..Len(sig) |-> 122]) }

\* In transit: the signature is replaced by a malformed one.
MalformSignature ==
  /\ pcS = "signed" /\ tamper = "none"
  /\ \E s \in MalformedSignatures(Val(Val(presented).signature)) :
       presented' = Some([Val(presented) EXCEPT !.signature = s])
  /\ tamper' = "malformed"
  /\ UNCHANGED <<pageVars, clock, pcS, input, credential, signed, verifyResult, expiredResult,
                 cryptoReady>>

\* verifyCredential(presented).
VerifyCredential ==
  /\ pcS = "signed"
  /\ verifyResult' = Some(verifyCredential(Val(presented)))
  /\ cryptoReady' = TRUE
  /\ pcS' = "verified"
  /\ UNCHANGED <<pageVars, clock, input, credential, signed, presented, tamper, expiredResult>>

\* isCredentialExpired(presented.payload), called at the instant clock.
CheckExpired ==
  /\ pcS = "verified"
  /\ expiredResult' = Some(isCredentialExpired(Val(presented).payload, clock))
  /\ pcS' = "checked"
  /\ UNCHANGED <<pageVars, clock, input, credential, signed, presented, tamper, verifyResult,
                 cryptoReady>>

(***************************************************************************)
(* CreatePage.tsx: the issuing form.                                       *)
(***************************************************************************)
\* What the user may type as a name: '', ' ', 'Al', ' Al'.
FormNames == { <<>>, <<32>>, <<65, 108>>, <<32, 65, 108>> }

\* What the date picker may hold: 2000-01-01, 2005-12-31, 2006-01-01,
\* 2007-01-01 and 2010-06-15.
FormDates ==
  { [y |-> 2000, m |-> 1, d |-> 1], [y |-> 2005, m |-> 12, d |-> 31],
    [y |-> 2006, m |-> 1, d |-> 1], [y |-> 2006, m |-> 12, d |-> 31],
    [y |-> 2007, m |-> 1, d |-> 1], [y |-> 2010, m |-> 6, d |-> 15] }

\* The time zones of the model: New York (winter), UTC, India.
TimeZones == {-300, 0, 330}

NameMissing == <<"Please enter your name">>
DateMissing == <<"Please select your date of birth">>
AgeRequirement(age) ==
  <<"You must be 18 or older to generate a credential. You are ",
    ToString(age), " years old.">>
GenerateFailed == <<"Failed to generate ZK credential. Please try again.">>
DownloadFailed == <<"Failed to download ZK QR code. Please try again.">>

\* encodeZKCredentialToQR: the data URL of the QR image of the credential,
\* or a failure of the PixelPass or QR code library.
encodeZKCredentialToQR(zkCred, ok) ==
  IF ok THEN Returned([image |-> zkCred])
  ELSE [threw |-> TRUE, value |-> <<"Failed to encode ZK credential to QR code">>]

InitCreate ==
  /\ formName = <<>>
  /\ formDateOfBirth = Null
  /\ isLoading = FALSE
  /\ error = <<>>
  /\ qrDataUrl = Null
  /\ zkCredential = Null
  /\ pcC = "idle"
  /\ run = Null
  /\ pcD = "idle"

\* The position of handleGenerateCredential once something else happened on
\* the page: "returned" holds only until then.
Settled(pc) == IF pc = "returned" THEN "idle" ELSE pc

\* onChange of the name input (disabled while loading).
SetName ==
  /\ ~isLoading
  /\ \E n \in FormNames : n # formName /\ formName' = n
  /\ pcC' = Settled(pcC)
  /\ UNCHANGED <<clock, signedVars, initVars, tzOffset, verifyVars, formDateOfBirth,
                 isLoading, error, qrDataUrl, zkCredential, run, pcD>>

\* onChange of the date input (disabled while loading).
SetDateOfBirth ==
  /\ ~isLoading
  /\ \E date \in {Null} \cup {Some(f) : f \in FormDates} :
       date # formDateOfBirth /\ formDateOfBirth' = date
  /\ pcC' = Settled(pcC)
  /\ UNCHANGED <<clock, signedVars, initVars, tzOffset, verifyVars, formName, isLoading,
                 error, qrDataUrl, zkCredential, run, pcD>>

\* handleGenerateCredential going on to generateZKProof after the age error,
\* where the handler returns.
handleGenerateCredentialStart_noreturn(nameState, dateState, now, tz) ==
  IF Trim(nameState) = <<>>
  THEN [error |-> NameMissing, goesOn |-> FALSE, locals |-> Null]
  ELSE IF dateState = Null
  THEN [error |-> DateMissing, goesOn |-> FALSE, locals |-> Null]
  ELSE LET birthYear == getFullYear(DateFromInput(Val(dateState)), tz)
           currentYear == getCurrentYear(now, tz)
           zkValidation == validateBirthYearForZK(birthYear, now, tz)
           locals == Some([name |-> Trim(nameState), birthYear |-> birthYear,
                           currentYear |-> currentYear, zkCred |-> Null])
       IN  IF ~zkValidation.isValid
           THEN [error |-> AgeRequirement(zkValidation.age), goesOn |-> TRUE,
                 locals |-> locals]
           ELSE [error |-> <<>>, goesOn |-> TRUE, locals |-> locals]

\* What the part of handleGenerateCredential that runs before its first
\* await leaves: the error shown, whether it goes on to generateZKProof, and
\* its locals.
handleGenerateCredentialStart(nameState, dateState, now, tz) ==
  IF Trim(nameState) = <<>>
  THEN [error |-> NameMissing, goesOn |-> FALSE, locals |-> Null]
  ELSE IF dateState = Null
  THEN [error |-> DateMissing, goesOn |-> FALSE, locals |-> Null]
  ELSE LET birthYear == getFullYear(DateFromInput(Val(dateState)), tz)
           currentYear == getCurrentYear(now, tz)
           zkValidation == validateBirthYearForZK(birthYear, now, tz)
           locals == Some([name |-> Trim(nameState), birthYear |-> birthYear,
                           currentYear |-> currentYear, zkCred |-> Null])
       IN  IF ~zkValidation.isValid
           THEN [error |-> AgeRequirement(zkValidation.age), goesOn |-> FALSE,
                 locals |-> locals]
           ELSE [error |-> <<>>, goesOn |-> TRUE, locals |-> locals]

\* handleGenerateCredential, from the click to its return or its first await.
HandleGenerateCredential ==
  /\ ~isLoading
  /\ pcC \in {"idle", "returned"}
  /\ LET start == handleGenerateCredentialStart(formName, formDateOfBirth,
                                                clock, tzOffset)
     IN  /\ error' = start.error
         /\ qrDataUrl' = Null
         /\ zkCredential' = Null
         /\ run' = start.locals
         /\ isLoading' = start.goesOn
         /\ pcC' = IF start.goesOn THEN "awaitProof" ELSE "returned"
  /\ UNCHANGED <<clock, signedVars, initVars, tzOffset, verifyVars, formName,
                 formDateOfBirth, pcD>>

\* generateZKProof settles: setZkCredential and the call of
\* encodeZKCredentialToQR, or the catch and finally blocks.
GenerateZKProofSettles ==
  /\ pcC = "awaitProof"
  /\ \E salt \in Salts :
       LET zkCred == generateZKProof(Val(run).birthYear, Val(run).currentYear,
                                     Val(run).name, clock, salt)
       IN  /\ run' = Some([Val(run) EXCEPT !.zkCred = zkCred])
           /\ IF zkCred = Null
              THEN /\ error' = GenerateFailed
                   /\ isLoading' = FALSE
                   /\ pcC' = "returned"
                   /\ UNCHANGED zkCredential
              ELSE /\ zkCredential' = zkCred
                   /\ pcC' = "awaitQr"
                   /\ UNCHANGED <<error, isLoading>>
  /\ UNCHANGED <<clock, signedVars, initVars, tzOffset, verifyVars, formName,
                 formDateOfBirth, qrDataUrl, pcD>>

\* encodeZKCredentialToQR settling with setIsLoading(false) at the end of
\* the try block, where the code has it in the finally block.
EncodeZKCredentialToQRSettles_nofinally ==
  /\ pcC = "awaitQr"
  /\ \E ok \in BOOLEAN :
       LET qrData == encodeZKCredentialToQR(Val(Val(run).zkCred), ok)
       IN  IF qrData.threw
           THEN error' = GenerateFailed /\ UNCHANGED <<qrDataUrl, isLoading>>
           ELSE /\ qrDataUrl' = Some(qrData.value)
                /\ isLoading' = FALSE
                /\ UNCHANGED error
  /\ pcC' = "returned"
  /\ UNCHANGED <<clock, signedVars, initVars, tzOffset, verifyVars, formName,
                 formDateOfBirth, zkCredential, run, pcD>>

\* encodeZKCredentialToQR settles: setQrDataUrl, or the catch block; then the
\* finally block.
EncodeZKCredentialToQRSettles ==
  /\ pcC = "awaitQr"
  /\ \E ok \in BOOLEAN :
       LET qrData == encodeZKCredentialToQR(Val(Val(run).zkCred), ok)
       IN  IF qrData.threw
           THEN error' = GenerateFailed /\ UNCHANGED qrDataUrl
           ELSE qrDataUrl' = Some(qrData.value) /\ UNCHANGED error
  /\ isLoading' = FALSE
  /\ pcC' = "returned"
  /\ UNCHANGED <<clock, signedVars, initVars, tzOffset, verifyVars, formName,
                 formDateOfBirth, zkCredential, run, pcD>>

\* handleDownloadQR, from the click (the button shows with the QR code) to
\* the await of downloadZKQRCode.
HandleDownloadQR ==
  /\ qrDataUrl # Null
  /\ zkCredential # Null
  /\ pcD = "idle"
  /\ pcD' = "awaitDownload"
  /\ pcC' = Settled(pcC)
  /\ UNCHANGED <<clock, signedVars, initVars, tzOffset, verifyVars, formName,
                 formDateOfBirth, isLoading, error, qrDataUrl, zkCredential,
                 run>>

\* downloadZKQRCode settles: nothing more, or the catch block.
DownloadZKQRCodeSettles ==
  /\ pcD = "awaitDownload"
  /\ pcD' = "idle"
  /\ \E ok \in BOOLEAN :
       error' = IF ok THEN error ELSE DownloadFailed
  /\ pcC' = Settled(pcC)
  /\ UNCHANGED <<clock, signedVars, initVars, tzOffset, verifyVars, formName,
                 formDateOfBirth, isLoading, qrDataUrl, zkCredential, run>>

\* handleReset of CreatePage (the button shows with a QR code or an error).
CreateHandleReset ==
  /\ qrDataUrl # Null \/ error # <<>>
  /\ formName' = <<>>
  /\ formDateOfBirth' = Null
  /\ error' = <<>>
  /\ qrDataUrl' = Null
  /\ zkCredential' = Null
  /\ pcC' = Settled(pcC)
  /\ UNCHANGED <<clock, signedVars, initVars, tzOffset, verifyVars, isLoading, run, pcD>>

MaxCameraRuns == 2
CameraRuns == 1..MaxCameraRuns

\* The upload, among the scans: camera runs are numbered from 1.
Upload == 0

InitVerify ==
  /\ verificationResult = Null
  /\ isProcessing = FALSE
  /\ pcV = "idle"
  /\ scan = Null
  /\ calls = <<>>
  /\ isScanning = FALSE
  /\ cameraError = Null
  /\ streamRef = Null
  /\ liveStreams = {}
  /\ camPc = [r \in CameraRuns |-> "idle"]
  /\ camRun = [r \in CameraRuns |-> Null]
  /\ latest = Null

(***************************************************************************)
(* zkQr.ts and VerifyPage.tsx: the verifying page.                         *)
(***************************************************************************)
\* The credential as JSON.parse gives it back: each field present (Some) or
\* absent (Null).
ToWire(cred) ==
  [ zkProof |-> Some([ proof |-> Some(cred.zkProof.proof),
                       publicSignals |-> Some(cred.zkProof.publicSignals) ]),
    metadata |-> Some([ iss |-> cred.metadata.iss,
                        name |-> cred.metadata.name,
                        iat |-> Some(cred.metadata.iat),
                        exp |-> Some(cred.metadata.exp) ]),
    commitment |-> Some(cred.commitment) ]

\* Credentials issued to 'Al', born 2000: one a year before BaseNow, one at
\* BaseNow.
Genuine ==
  { ToWire(Val(generateZKProof(2000, getCurrentYear(t, 0), <<65, 108>>, t, 1))) :
      t \in {Instant(BaseNow - 365 * 86400, 0), Instant(BaseNow, 0)} }

\* "16", "0" and a commitment nobody made.
Sixteen == <<49, 54>>
Zero == <<48>>
OtherCommitment == <<48, 48, 48, 48, 48, 48>>

\* A credential and what an altered or truncated copy of it may look like.
Variants(w) ==
  LET zp == Val(w.zkProof)
      ps == Val(zp.publicSignals)
      md == Val(w.metadata)
      WithSignals(s) ==
        [w EXCEPT !.zkProof = Some([zp EXCEPT !.publicSignals = Some(s)])]
  IN  { w,
        [w EXCEPT !.zkProof = Null],
        [w EXCEPT !.metadata = Null],
        [w EXCEPT !.commitment = Null],
        [w EXCEPT !.commitment = Some(<<>>)],
        [w EXCEPT !.commitment = Some(OtherCommitment)],
        [w EXCEPT !.zkProof = Some([zp EXCEPT !.proof = Null])],
        [w EXCEPT !.zkProof = Some([zp EXCEPT !.publicSignals = Null])],
        WithSignals(<<>>),
        WithSignals([ps EXCEPT ![1] = Zero]),
        WithSignals([ps EXCEPT ![2] = NumberToString(2030)]),
        WithSignals([ps EXCEPT ![3] = Sixteen]),
        [w EXCEPT !.metadata = Some([md EXCEPT !.exp = Null])],
        [w EXCEPT !.metadata = Some([md EXCEPT !.exp = Some(Val(md.exp) - 365 * 86400)])] }

\* The texts a QR code may carry: no JSON, the JSON null, a JSON number, a
\* JSON object.
Docs ==
  { [kind |-> k, obj |-> Null] : k \in {"syntaxError", "null", "scalar"} }
    \cup { [kind |-> "object", obj |-> Some(v)] :
             v \in UNION {Variants(w) : w \in Genuine} }

\* The strings a scan may deliver: the text itself or its PixelPass encoding.
QrInputs == [pixelPass : BOOLEAN, doc : Docs]

\* A JavaScript Error; its message is a sequence of pieces, so that
\* message.includes(piece) is membership.
Error(errName, message) == [name |-> errName, message |-> message]
Throws(err) == [threw |-> TRUE, value |-> err]
Includes(message, piece) == \E i \in DOMAIN message : message[i] = piece

\* PixelPass.decode(qrData)
PixelPassDecode(qrData) ==
  IF qrData.pixelPass THEN Returned(qrData.doc)
  ELSE Throws(Error("Error", <<"not a PixelPass string">>))

\* JSON.parse(decodedData)
JSONParse(doc) ==
  IF doc.kind = "syntaxError"
  THEN Throws(Error("SyntaxError", <<"Unexpected token">>))
  ELSE Returned(doc)

\* The try block of decodeZKCredentialFromQR.
decodeZKCredentialFromQRTry(qrData) ==
  LET pp == PixelPassDecode(qrData)
      decodedData == IF pp.threw THEN qrData.doc ELSE pp.value
      parsed == JSONParse(decodedData)
  IN  IF parsed.threw THEN parsed
      ELSE IF parsed.value.kind = "null"
      THEN Throws(Error("TypeError",
                        <<"Cannot read properties of null (reading 'zkProof')">>))
      ELSE IF parsed.value.kind = "scalar"
      THEN Throws(Error("Error",
             <<"Invalid ", "ZK credential", " structure - missing required fields">>))
      ELSE LET c == Val(parsed.value.obj)
           IN  IF c.zkProof = Null \/ c.metadata = Null
                    \/ c.commitment = Null \/ c.commitment = Some(<<>>)
               THEN Throws(Error("Error",
                      <<"Invalid ", "ZK credential",
                        " structure - missing required fields">>))
               ELSE IF Val(c.zkProof).proof = Null
                         \/ Val(c.zkProof).publicSignals = Null
               THEN Throws(Error("Error",
                      <<"Invalid ZK proof structure - missing proof or publicSignals">>))
               ELSE Returned(c)

\* A catch block that wraps a SyntaxError like any other error, where the
\* function names the invalid JSON.
decodeZKCredentialFromQRCatch_generic(err) ==
  Throws(Error("Error",
               <<"Failed to decode QR code to ", "ZK credential", ": ">>
                 \o err.message))

\* The catch block of decodeZKCredentialFromQR.
decodeZKCredentialFromQRCatch(err) ==
  IF err.name = "SyntaxError"
  THEN Throws(Error("Error",
                    <<"Failed to decode QR code - invalid ", "JSON", " format">>))
  ELSE Throws(Error("Error",
                    <<"Failed to decode QR code to ", "ZK credential", ": ">>
                      \o err.message))

decodeZKCredentialFromQR(qrData) ==
  LET r == decodeZKCredentialFromQRTry(qrData)
  IN  IF r.threw THEN decodeZKCredentialFromQRCatch(r.value) ELSE r

\* The credential has the shape verifyZKProof works on: four public signals.
ProofWellTyped(c) == Len(Val(Val(c.zkProof).publicSignals)) = 4

\* A check of the claim flag alone.
verifyProof_flagOnly(c) ==
  Val(Val(c.zkProof).publicSignals)[1] = <<49>>

\* verifyZKProof on a credential of that shape: the integrity value is
\* recomputed from the commitment and the public signals and compared, and
\* the claim flag, the minimum age and the commitment signal are as issued.
verifyProof(c) ==
  LET publicSignals == Val(Val(c.zkProof).publicSignals)
      commitment == Val(c.commitment)
  IN  /\ Val(Val(c.zkProof).proof) = IntegrityOf(commitment, publicSignals)
      /\ publicSignals[1] = <<49>>
      /\ publicSignals[3] = NumberToString(MinAge)
      /\ publicSignals[4] = commitment

\* The outcomes of verifyZKProof: a boolean for a credential of the right
\* shape; another one is rejected or makes it fail.
verifyZKProof(c, fails) ==
  IF ProofWellTyped(c) THEN Returned(verifyProof(c))
  ELSE IF fails
  THEN Throws(Error("TypeError", <<"Cannot read properties of undefined">>))
  ELSE Returned(FALSE)

\* isZKCredentialExpired at the instant now: the expiry rule on
\* metadata.exp; a comparison with an absent exp is false.
isZKCredentialExpired(c, now) ==
  IF Val(c.metadata).exp = Null THEN FALSE
  ELSE isCredentialExpired([exp |-> Val(Val(c.metadata).exp)], now)

InvalidProof == <<"Invalid ZK proof - credential may have been tampered with">>
ImageFailed ==
  <<"Failed to decode QR code from image. Please ensure the image contains a clear, valid QR code. Try taking a clearer photo or checking the QR code format.">>
ProcessFailed == "Failed to process QR code. "
NoJSON == "The QR code does not contain valid JSON data."
NoPixelPass ==
  "Failed to decode PixelPass format. This may not be a MOSIP-compatible QR code."
NoStructure == "The QR code does not contain a valid ZK credential structure."
NoCredential == "Please ensure it's a valid ZK proof of age credential."

\* A result that reports expiry only for a valid proof, where the handler
\* reports it for each.
processQRCodeResult_validOnly(cred, isValidProof, expired) ==
  [ isValid |-> isValidProof,
    isExpired |-> isValidProof /\ expired,
    zkCredential |-> Some(cred),
    error |-> IF isValidProof THEN Null ELSE InvalidProof ]

\* The result processQRCode sets at the end of its try block.
processQRCodeResult(cred, isValidProof, expired) ==
  [ isValid |-> isValidProof,
    isExpired |-> expired,
    zkCredential |-> Some(cred),
    error |-> IF isValidProof THEN Null ELSE InvalidProof ]

\* The result the catch block of processQRCode sets.
processQRCodeCatch(err) ==
  [ isValid |-> FALSE,
    isExpired |-> FALSE,
    zkCredential |-> Null,
    error |-> << ProcessFailed,
                 IF Includes(err.message, "JSON") THEN NoJSON
                 ELSE IF Includes(err.message, "PixelPass") THEN NoPixelPass
                 ELSE IF Includes(err.message, "ZK credential") THEN NoStructure
                 ELSE NoCredential >> ]

\* A status text that leaves the expiry out.
getStatusText_noExpiry(result) ==
  IF result = Null THEN ""
  ELSE IF Val(result).error # Null THEN "ZK Proof Verification Failed"
  ELSE IF Val(result).isValid THEN "Valid ZK Proof"
  ELSE "Invalid ZK Proof"

\* getStatusText(), for the state verificationResult.
getStatusText(result) ==
  IF result = Null THEN ""
  ELSE IF Val(result).error # Null THEN "ZK Proof Verification Failed"
  ELSE IF Val(result).isExpired THEN "ZK Credential Expired"
  ELSE IF Val(result).isValid THEN "Valid ZK Proof"
  ELSE "Invalid ZK Proof"

\* getStatusIcon(), for the state verificationResult.
getStatusIcon(result) ==
  IF result = Null THEN ""
  ELSE IF Val(result).error # Null THEN "cross"
  ELSE IF Val(result).isExpired THEN "clock"
  ELSE IF Val(result).isValid THEN "check"
  ELSE "cross"

\* A class that leaves the expiry out.
ResultClassName_validOnly(result) ==
  IF Val(result).isValid THEN "valid" ELSE "invalid"

\* The class of the result block, which shows with a result.
ResultClassName(result) ==
  IF Val(result).isValid /\ ~Val(result).isExpired THEN "valid" ELSE "invalid"

\* handleFileUpload, from the choice of a file to the await of the image
\* reader; the image holds a QR code with some string, or none.
HandleFileUpload ==
  /\ pcV = "idle"
  /\ ~isProcessing
  /\ ~isScanning
  /\ latest' = Some(Upload)
  /\ \E image \in {Null} \cup {Some(q) : q \in QrInputs} :
       scan' = Some([qrData |-> image, decoded |-> Null, proof |-> Null,
                     now |-> Null])
  /\ verificationResult' = Null
  /\ isProcessing' = TRUE
  /\ calls' = <<>>
  /\ pcV' = "awaitImage"
  /\ UNCHANGED <<clock, signedVars, initVars, tzOffset, createVars, isScanning,
                 cameraError, streamRef, liveStreams, camPc, camRun>>

\* The image reader found no QR code: the catch and finally blocks of
\* handleFileUpload.
ImageDecodeFails ==
  /\ pcV = "awaitImage"
  /\ Val(scan).qrData = Null
  /\ verificationResult' =
       Some([isValid |-> FALSE, isExpired |-> FALSE, zkCredential |-> Null,
             error |-> ImageFailed])
  /\ isProcessing' = FALSE
  /\ pcV' = "idle"
  /\ UNCHANGED <<clock, signedVars, initVars, tzOffset, createVars, cameraVars, scan, calls>>

\* processQRCode(qrData), up to the await of decodeZKCredentialFromQR, whose
\* body has run by then.
ProcessQRCode ==
  /\ pcV = "awaitImage"
  /\ Val(scan).qrData # Null
  /\ isProcessing' = TRUE
  /\ scan' = Some([Val(scan) EXCEPT
                     !.decoded = Some(decodeZKCredentialFromQR(Val(Val(scan).qrData)))])
  /\ calls' = Append(calls, "structure")
  /\ pcV' = "awaitDecode"
  /\ UNCHANGED <<clock, signedVars, initVars, tzOffset, createVars, cameraVars, verificationResult>>

\* decodeZKCredentialFromQR rejects: the catch and finally blocks of
\* processQRCode.
DecodeRejects ==
  /\ pcV = "awaitDecode"
  /\ Val(Val(scan).decoded).threw
  /\ verificationResult' = Some(processQRCodeCatch(Val(Val(scan).decoded).value))
  /\ isProcessing' = FALSE
  /\ pcV' = "idle"
  /\ UNCHANGED <<clock, signedVars, initVars, tzOffset, createVars, cameraVars, scan, calls>>

\* decodeZKCredentialFromQR resolves: the call of verifyZKProof.
DecodeResolves ==
  /\ pcV = "awaitDecode"
  /\ ~Val(Val(scan).decoded).threw
  /\ \E fails \in BOOLEAN :
       scan' = Some([Val(scan) EXCEPT
                      !.proof = Some(verifyZKProof(Val(Val(scan).decoded).value,
                                                   fails))])
  /\ calls' = Append(calls, "proof")
  /\ pcV' = "awaitVerify"
  /\ UNCHANGED <<clock, signedVars, initVars, tzOffset, createVars, cameraVars, verificationResult,
                 isProcessing>>

\* verifyZKProof settles: isZKCredentialExpired and setVerificationResult, or
\* the catch block; then the finally block.
VerifySettles ==
  /\ pcV = "awaitVerify"
  /\ LET cred == Val(Val(scan).decoded).value
         isValidProof == Val(Val(scan).proof)
     IN  IF isValidProof.threw
         THEN /\ verificationResult' = Some(processQRCodeCatch(isValidProof.value))
              /\ UNCHANGED <<scan, calls>>
         ELSE /\ verificationResult' =
                   Some(processQRCodeResult(cred, isValidProof.value,
                                            isZKCredentialExpired(cred, clock)))
              /\ scan' = Some([Val(scan) EXCEPT !.now = Some(clock)])
              /\ calls' = Append(calls, "expiry")
  /\ isProcessing' = FALSE
  /\ pcV' = "idle"
  /\ UNCHANGED <<clock, signedVars, initVars, tzOffset, createVars, cameraVars>>

\* stopCamera(): the tracks of streamRef.current are stopped and the
\* reference, the flag and the camera error are cleared.
stopCamera ==
  /\ isScanning' = FALSE
  /\ cameraError' = Null
  /\ liveStreams' = IF streamRef = Null THEN liveStreams
                    ELSE liveStreams \ {Val(streamRef)}
  /\ streamRef' = Null

\* handleReset of VerifyPage (the button shows with a result).
VerifyHandleReset ==
  /\ verificationResult # Null
  /\ verificationResult' = Null
  /\ scan' = IF pcV = "idle" THEN Null ELSE scan
  /\ calls' = IF pcV = "idle" THEN <<>> ELSE calls
  /\ stopCamera
  /\ latest' = Null
  /\ UNCHANGED <<clock, signedVars, initVars, tzOffset, createVars, isProcessing,
                 pcV, camPc, camRun>>

\* The names of the errors getUserMedia and the QR reader reject with.
CameraErrorNames ==
  {"NotAllowedError", "NotFoundError", "NotSupportedError", "NotFoundException"}

CameraFailed == "Failed to access camera. "

\* The message the catch block of startCamera builds.
CameraErrorMessage(errName) ==
  << CameraFailed,
     IF errName = "NotAllowedError"
     THEN "Camera permission was denied. Please allow camera access and try again."
     ELSE IF errName = "NotFoundError" THEN "No camera found on this device."
     ELSE IF errName = "NotSupportedError"
     THEN "Camera is not supported on this device."
     ELSE "Please try uploading an image instead." >>

\* The texts the camera may read: the genuine credentials in PixelPass
\* encoding and a text that is no JSON.
CameraTexts ==
  { [pixelPass |-> TRUE, doc |-> [kind |-> "object", obj |-> Some(w)]] :
      w \in Genuine }
    \cup { [pixelPass |-> FALSE, doc |-> [kind |-> "syntaxError", obj |-> Null]] }

\* The Start Camera button (shown when not scanning, disabled while
\* processing): startCamera up to the await of getUserMedia.
StartCamera(r) ==
  /\ ~isScanning
  /\ ~isProcessing
  /\ camPc[r] = "idle"
  /\ \A q \in CameraRuns : q < r => camPc[q] # "idle"
  /\ isScanning' = TRUE
  /\ verificationResult' = Null
  /\ cameraError' = Null
  /\ camPc' = [camPc EXCEPT ![r] = "awaitMedia"]
  /\ latest' = Some(r)
  /\ UNCHANGED <<clock, signedVars, initVars, tzOffset, createVars, isProcessing,
                 pcV, scan, calls, streamRef, liveStreams, camRun>>

\* getUserMedia resolves with a stream: it is kept in streamRef, and with the
\* video element on the page (it shows while scanning) startCamera waits for
\* its metadata, otherwise it goes on to the QR reader.
GetUserMediaResolves(r) ==
  /\ camPc[r] = "awaitMedia"
  /\ liveStreams' = liveStreams \cup {r}
  /\ streamRef' = Some(r)
  /\ camPc' = [camPc EXCEPT ![r] = IF isScanning THEN "awaitMetadata"
                                   ELSE "awaitDecode"]
  /\ UNCHANGED <<clock, signedVars, initVars, tzOffset, createVars,
                 verificationResult, isProcessing, pcV, scan, calls, isScanning,
                 cameraError, camRun, latest>>

\* The catch and finally blocks of startCamera: the message is set as camera
\* error and as result, then stopCamera() runs.
CameraFails(r, errName) ==
  /\ verificationResult' =
       Some([isValid |-> FALSE, isExpired |-> FALSE, zkCredential |-> Null,
             error |-> CameraErrorMessage(errName)])
  /\ stopCamera
  /\ camPc' = [camPc EXCEPT ![r] = "done"]
  /\ UNCHANGED <<clock, signedVars, initVars, tzOffset, createVars, isProcessing,
                 pcV, scan, calls, camRun, latest>>

\* getUserMedia rejects.
GetUserMediaRejects(r) ==
  /\ camPc[r] = "awaitMedia"
  /\ \E errName \in CameraErrorNames : CameraFails(r, errName)

\* The video element has loaded the metadata of the stream: the QR reader is
\* started.
MetadataLoaded(r) ==
  /\ camPc[r] = "awaitMetadata"
  /\ camPc' = [camPc EXCEPT ![r] = "awaitDecode"]
  /\ UNCHANGED <<clock, signedVars, initVars, tzOffset, createVars,
                 verificationResult, isProcessing, pcV, scan, calls, isScanning,
                 cameraError, streamRef, liveStreams, camRun, latest>>

\* decodeOnceFromVideoDevice rejects.
CameraDecodeRejects(r) ==
  /\ camPc[r] = "awaitDecode"
  /\ \E errName \in CameraErrorNames : CameraFails(r, errName)

\* decodeOnceFromVideoDevice resolves with a text: processQRCode is called and
\* runs up to the await of decodeZKCredentialFromQR.
CameraDecodeResolves(r) ==
  /\ camPc[r] = "awaitDecode"
  /\ \E text \in CameraTexts :
       camRun' = [camRun EXCEPT ![r] =
                    Some([qrData |-> text,
                          decoded |-> decodeZKCredentialFromQR(text),
                          proof |-> Null])]
  /\ isProcessing' = TRUE
  /\ camPc' = [camPc EXCEPT ![r] = "awaitDecodeZK"]
  /\ UNCHANGED <<clock, signedVars, initVars, tzOffset, createVars,
                 verificationResult, pcV, scan, calls, isScanning, cameraError,
                 streamRef, liveStreams, latest>>

\* decodeZKCredentialFromQR rejects: the catch and finally blocks of
\* processQRCode, then the finally block of startCamera.
CameraProcessRejects(r) ==
  /\ camPc[r] = "awaitDecodeZK"
  /\ Val(camRun[r]).decoded.threw
  /\ verificationResult' = Some(processQRCodeCatch(Val(camRun[r]).decoded.value))
  /\ isProcessing' = FALSE
  /\ stopCamera
  /\ camPc' = [camPc EXCEPT ![r] = "done"]
  /\ UNCHANGED <<clock, signedVars, initVars, tzOffset, createVars, pcV, scan,
                 calls, camRun, latest>>

\* decodeZKCredentialFromQR resolves: the call of verifyZKProof.
CameraProcessResolves(r) ==
  /\ camPc[r] = "awaitDecodeZK"
  /\ ~Val(camRun[r]).decoded.threw
  /\ \E fails \in BOOLEAN :
       camRun' = [camRun EXCEPT ![r] =
                    Some([Val(camRun[r]) EXCEPT
                            !.proof = Some(verifyZKProof(Val(camRun[r]).decoded.value,
                                                         fails))])]
  /\ camPc' = [camPc EXCEPT ![r] = "awaitVerify"]
  /\ UNCHANGED <<clock, signedVars, initVars, tzOffset, createVars,
                 verificationResult, isProcessing, pcV, scan, calls, isScanning,
                 cameraError, streamRef, liveStreams, latest>>

\* verifyZKProof settles: the result or the catch block of processQRCode, its
\* finally block, then the finally block of startCamera.
CameraVerifySettles(r) ==
  /\ camPc[r] = "awaitVerify"
  /\ LET cred == Val(camRun[r]).decoded.value
         isValidProof == Val(Val(camRun[r]).proof)
     IN  verificationResult' =
           IF isValidProof.threw
           THEN Some(processQRCodeCatch(isValidProof.value))
           ELSE Some(processQRCodeResult(cred, isValidProof.value,
                                         isZKCredentialExpired(cred, clock)))
  /\ isProcessing' = FALSE
  /\ stopCamera
  /\ camPc' = [camPc EXCEPT ![r] = "done"]
  /\ UNCHANGED <<clock, signedVars, initVars, tzOffset, createVars, pcV, scan,
                 calls, camRun, latest>>

\* The Stop Camera button (shown while scanning).
StopCamera ==
  /\ isScanning
  /\ stopCamera
  /\ UNCHANGED <<clock, signedVars, initVars, tzOffset, createVars,
                 verificationResult, isProcessing, pcV, scan, calls, camPc,
                 camRun, latest>>

(***************************************************************************)
(* crypto.ts: the lazy set-up of the Ed25519 library.                      *)
(***************************************************************************)
\* The functions that await ensureCryptoReady() first.
Callers == {"generateKeyPair", "signCredential", "verifyCredential"}

\* The credentials that concurrent calls of signCredential are given.
CallCredentials ==
  { createVerifiableCredential(name, Instant(10957 * 86400, 0),
                               Instant(BaseNow, 0)) :
      name \in {<<65, 108>>, <<65, 34>>} }

\* The signed credentials that concurrent calls of verifyCredential are
\* given: signed ones, and one with the signature missing.
CallSigned ==
  {signCredential(c) : c \in CallCredentials}
    \cup {[payload |-> c, signature |-> Null] : c \in CallCredentials}

\* The arguments of a call.
CallArgs(c) ==
  CASE c = "signCredential" -> CallCredentials
    [] c = "verifyCredential" -> CallSigned
    [] OTHER -> {Null}

\* The body of a caller after await ensureCryptoReady(), with the hash set
\* or not: without it ed25519.sign, verify and getPublicKey throw, and
\* verifyCredential catches.
CallBody(c, arg, hash) ==
  CASE c = "signCredential" ->
         IF hash THEN Returned(signCredential(arg)) ELSE Thrown
    [] c = "verifyCredential" ->
         IF hash THEN verifyCredential(arg) ELSE Returned(FALSE)
    [] OTHER ->
         IF hash
         THEN Returned({[privateKey |-> k, publicKey |-> getPublicKey(k)] :
                          k \in PrivateKeys})
         ELSE Thrown

InitCrypto ==
  /\ callPc = [c \in Callers |-> "idle"]
  /\ setupRuns = 0
  /\ sha512 = FALSE
  /\ callRun = [c \in Callers |-> Null]

\* ensureCryptoReady setting the flag before it awaits setupCrypto.
CallEnsureCryptoReady_flagFirst(c) ==
  /\ callPc[c] = "idle"
  /\ \E arg \in CallArgs(c) :
       callRun' = [callRun EXCEPT ![c] = Some([arg |-> arg, out |-> Null,
                                               hash |-> FALSE])]
  /\ IF cryptoReady
     THEN /\ callPc' = [callPc EXCEPT ![c] = "ready"]
          /\ UNCHANGED <<setupRuns, cryptoReady>>
     ELSE /\ callPc' = [callPc EXCEPT ![c] = "awaitImport"]
          /\ cryptoReady' = TRUE
          /\ setupRuns' = setupRuns + 1
  /\ UNCHANGED <<clock, pcS, input, credential, signed, presented, tamper,
                 verifyResult, expiredResult, tzOffset,
                 createVars, verifyVars, sha512>>

\* A call of c: ensureCryptoReady reads the flag and either has nothing to
\* await or calls setupCrypto, which awaits the import.
CallEnsureCryptoReady(c) ==
  /\ callPc[c] = "idle"
  /\ \E arg \in CallArgs(c) :
       callRun' = [callRun EXCEPT ![c] = Some([arg |-> arg, out |-> Null,
                                               hash |-> FALSE])]
  /\ IF cryptoReady
     THEN /\ callPc' = [callPc EXCEPT ![c] = "ready"]
          /\ UNCHANGED setupRuns
     ELSE /\ callPc' = [callPc EXCEPT ![c] = "awaitImport"]
          /\ setupRuns' = setupRuns + 1
  /\ UNCHANGED <<clock, pcS, input, credential, signed, presented, tamper,
                 verifyResult, expiredResult, cryptoReady, tzOffset,
                 createVars, verifyVars, sha512>>

\* The import of c's setupCrypto settles: the hash is set and setupCrypto
\* returns.
ImportSettles(c) ==
  /\ callPc[c] = "awaitImport"
  /\ sha512' = TRUE
  /\ callPc' = [callPc EXCEPT ![c] = "awaitSetup"]
  /\ UNCHANGED <<clock, signedVars, tzOffset, createVars, verifyVars, setupRuns,
                 callRun>>

\* ensureCryptoReady goes on after await setupCrypto(): the flag is set.
SetCryptoReady(c) ==
  /\ callPc[c] = "awaitSetup"
  /\ cryptoReady' = TRUE
  /\ callPc' = [callPc EXCEPT ![c] = "ready"]
  /\ UNCHANGED <<clock, pcS, input, credential, signed, presented, tamper,
                 verifyResult, expiredResult, tzOffset, createVars, verifyVars,
                 setupRuns, sha512, callRun>>

\* The caller goes on after await ensureCryptoReady(): its body runs with the
\* hash as it is then, and it returns.
CallReturns(c) ==
  /\ callPc[c] = "ready"
  /\ callPc' = [callPc EXCEPT ![c] = "idle"]
  /\ callRun' = [callRun EXCEPT ![c] =
                   Some([arg |-> Val(callRun[c]).arg,
                         out |-> Some(CallBody(c, Val(callRun[c]).arg, sha512)),
                         hash |-> sha512])]
  /\ UNCHANGED <<clock, signedVars, tzOffset, createVars, verifyVars, setupRuns,
                 sha512>>

Init ==
  /\ clock \in Instants
  /\ InitSigned
  /\ tzOffset = 0
  /\ InitCreate
  /\ InitVerify
  /\ InitCrypto

Next ==
  \/ Advance
  \/ CreateCredential
  \/ SignCredential
  \/ TamperSignatureBit
  \/ TamperPayloadBit
  \/ MalformSignature
  \/ VerifyCredential
  \/ CheckExpired

Spec == Init /\ [][Next]_vars

\* createVerifiableCredential alone, at every millisecond of the seconds of
\* the clock.
InitBuild ==
  /\ clock \in {Instant(sec, msec) : sec \in ClockSeconds, msec \in 0..999}
  /\ InitSigned
  /\ tzOffset = 0
  /\ InitCreate
  /\ InitVerify
  /\ InitCrypto

NextBuild == CreateCredential

SpecBuild == InitBuild /\ [][NextBuild]_vars

\* The issuing form, in each time zone.
InitCreatePage ==
  /\ clock \in Instants
  /\ tzOffset \in TimeZones
  /\ InitSigned
  /\ InitCreate
  /\ InitVerify
  /\ InitCrypto

NextCreate ==
  \/ Advance
  \/ SetName
  \/ SetDateOfBirth
  \/ HandleGenerateCredential
  \/ GenerateZKProofSettles
  \/ EncodeZKCredentialToQRSettles
  \/ HandleDownloadQR
  \/ DownloadZKQRCodeSettles
  \/ CreateHandleReset

SpecCreate == InitCreatePage /\ [][NextCreate]_vars

\* The verifying page.
NextVerify ==
  \/ Advance
  \/ HandleFileUpload
  \/ ImageDecodeFails
  \/ ProcessQRCode
  \/ DecodeRejects
  \/ DecodeResolves
  \/ VerifySettles
  \/ VerifyHandleReset

SpecVerify == Init /\ [][NextVerify]_vars

\* The verifying page with the camera: uploads and camera scans together.
NextCamera ==
  \/ HandleFileUpload
  \/ ImageDecodeFails
  \/ ProcessQRCode
  \/ DecodeRejects
  \/ DecodeResolves
  \/ VerifySettles
  \/ VerifyHandleReset
  \/ StopCamera
  \/ \E r \in CameraRuns : StartCamera(r)
  \/ \E r \in CameraRuns : GetUserMediaResolves(r)
  \/ \E r \in CameraRuns : GetUserMediaRejects(r)
  \/ \E r \in CameraRuns : MetadataLoaded(r)
  \/ \E r \in CameraRuns : CameraDecodeRejects(r)
  \/ \E r \in CameraRuns : CameraDecodeResolves(r)
  \/ \E r \in CameraRuns : CameraProcessRejects(r)
  \/ \E r \in CameraRuns : CameraProcessResolves(r)
  \/ \E r \in CameraRuns : CameraVerifySettles(r)

\* The page opened at the instant BaseNow.
InitCamera == Init /\ clock = Instant(BaseNow, 0)

SpecCamera == InitCamera /\ [][NextCamera]_vars

\* The callers of ensureCryptoReady, in every interleaving.
NextCrypto ==
  \/ Advance
  \/ \E c \in Callers : CallEnsureCryptoReady(c)
  \/ \E c \in Callers : ImportSettles(c)
  \/ \E c \in Callers : SetCryptoReady(c)
  \/ \E c \in Callers : CallReturns(c)

SpecCrypto == Init /\ [][NextCrypto]_vars

\* The verifying page with its promises settling: a continuation that can
\* run does run.
SpecVerifyFair ==
  /\ SpecVerify
  /\ WF_vars(ImageDecodeFails)
  /\ WF_vars(ProcessQRCode)
  /\ WF_vars(DecodeRejects)
  /\ WF_vars(DecodeResolves)
  /\ WF_vars(VerifySettles)

(***************************************************************************)
(* Properties of the signed-credential path.                               *)
(***************************************************************************)
Verified == pcS \in {"verified", "checked"}

\* The age of the holder at the issuance, in years of 365.25 days.
HolderAge == AgeAt(Val(input).now, Val(input).dateOfBirth)

\* C1: a credential issued (createVerifiableCredential, signCredential) for a
\* holder of at least 18 and verified untouched at the same instant is valid
\* and not expired.
C1_IssueThenVerifyValid ==
  (pcS = "checked" /\ tamper = "none" /\ clock = Val(input).now /\ HolderAge >= 18)
    => (verifyResult = Some(Returned(TRUE)) /\ expiredResult = Some(FALSE))

C4_NoCredentialUnder18 ==
  credential # Null => (HolderAge >= 18 /\ Val(credential).over18)

\* A signature string that is not 2 * SigLen hexadecimal digits.
Malformed(signature) ==
  \/ signature = Null
  \/ Len(Val(signature)) # 2 * SigLen
  \/ \E i \in 1..Len(Val(signature)) : HexVal(Val(signature)[i]) < 0

\* C8: verifyCredential never throws, and it answers false for a signature
\* that is missing, empty, of odd length or not hexadecimal.
C8_VerifyNeverThrows ==
  Verified =>
    /\ ~Val(verifyResult).threw
    /\ Malformed(Val(presented).signature) => ~Val(verifyResult).value

\* A verified credential whose signature is missing or empty.
C8_Witness ==
  /\ Verified /\ tamper = "malformed"
  /\ Val(presented).signature \in {Null, Some(<<>>)}
  /\ verifyResult = Some(Returned(FALSE))

\* C9: the expiry check answers now > exp in whole seconds (not expired in
\* the second exp, expired in the second exp + 1) and changes nothing else.
C9_ExpiryState ==
  pcS = "checked" =>
    LET exp == Val(presented).payload.exp
    IN  /\ Val(expiredResult) = (clock.s > exp)
        /\ clock.s = exp => ~Val(expiredResult)
        /\ clock.s = exp + 1 => Val(expiredResult)

C9_ExpiryStep ==
  (pcS = "verified" /\ pcS' = "checked")
    => UNCHANGED <<pageVars, clock, input, credential, signed, presented, tamper,
                   verifyResult, cryptoReady>>

C9_ExpiryIsStrict == [](C9_ExpiryState) /\ [][C9_ExpiryStep]_vars

\* A credential checked in the last millisecond of the second exp.
C9_Witness ==
  /\ pcS = "checked"
  /\ clock = Instant(Val(presented).payload.exp, 999)
  /\ expiredResult = Some(FALSE)

\* C10: iat and exp are whole seconds, iat the second of now, and
\* exp = iat + 365 days = iat + 31,536,000 s, whatever the millisecond of now.
C10_ExpiresAfter365Days ==
  credential # Null =>
    LET c == Val(credential)
    IN  /\ c.iat \in Int /\ c.exp \in Int
        /\ c.iat = Val(input).now.s
        /\ c.exp = c.iat + 31536000
        /\ c.exp > c.iat

\* A credential built in the last millisecond of a second.
C10_Witness ==
  credential # Null /\ Val(input).now.ms = 999

(***************************************************************************)
(* Properties of the issuing form.                                         *)
(***************************************************************************)
\* The last handleGenerateCredential has returned and its reference year
\* less its birth year is below the minimum age.
RefusedRun ==
  /\ pcC \in {"idle", "returned"}
  /\ run # Null
  /\ Val(run).currentYear - Val(run).birthYear < MinAge

\* C3: when the reference year less the birth year is below 18, the run of
\* handleGenerateCredential made no proof, leaves zkCredential null and
\* qrDataUrl empty, and returns with the age-requirement error shown.
C3_UnderAgeRefused ==
  RefusedRun =>
    /\ zkCredential = Null
    /\ qrDataUrl = Null
    /\ Val(run).zkCred = Null
    /\ pcC = "returned" =>
         error = AgeRequirement(Val(run).currentYear - Val(run).birthYear)

\* A holder of 17 has just been refused.
C3_Witness ==
  /\ RefusedRun
  /\ pcC = "returned"
  /\ Val(run).currentYear - Val(run).birthYear = 17
  /\ error = AgeRequirement(17)

(***************************************************************************)
(* Properties of the verifying page.                                       *)
(***************************************************************************)
\* The last scan delivered a string and processQRCode has returned.
Processed == pcV = "idle" /\ scan # Null /\ Val(scan).qrData # Null

\* The text that processQRCode was given.
ScannedDoc == Val(Val(scan).qrData).doc

\* Every required field of a ZK credential is there and has its type.
StructurallyValid(doc) ==
  /\ doc.kind = "object"
  /\ LET c == Val(doc.obj)
     IN  /\ c.zkProof # Null
         /\ c.metadata # Null
         /\ c.commitment # Null
         /\ c.commitment # Some(<<>>)
         /\ Val(c.zkProof).proof # Null
         /\ Val(c.zkProof).publicSignals # Null
         /\ Len(Val(Val(c.zkProof).publicSignals)) = 4
         /\ Val(c.metadata).iat # Null
         /\ Val(c.metadata).exp # Null

\* The result is a rejection for the format of the input.
FormatError(result) ==
  /\ ~result.isValid
  /\ ~result.isExpired
  /\ result.zkCredential = Null
  /\ result.error \in {<<ProcessFailed, NoJSON>>, <<ProcessFailed, NoStructure>>}

\* C5: a structurally valid credential verified at a now (in whole seconds)
\* after its exp is reported expired, whether the proof check answered true
\* or false.
C5_ExpiredWhateverTheProof ==
  ( /\ Processed
    /\ StructurallyValid(ScannedDoc)
    /\ Val(scan).now # Null
    /\ MsFloorDiv(Val(Val(scan).now), 1) > Val(Val(Val(ScannedDoc.obj).metadata).exp) )
  => Val(verificationResult).isExpired

\* An altered credential verified after its exp: invalid and expired.
C5_Witness ==
  /\ Processed
  /\ StructurallyValid(ScannedDoc)
  /\ Val(scan).now # Null
  /\ MsFloorDiv(Val(Val(scan).now), 1) > Val(Val(Val(ScannedDoc.obj).metadata).exp)
  /\ ~Val(verificationResult).isValid
  /\ Val(verificationResult).isExpired

\* C6: the checks run in the order structure, proof, expiry: an input with a
\* required field missing or of the wrong type gets a format error and
\* neither the proof check nor the expiry check; any other input gets the
\* proof check, which decides isValid, and then the expiry check.
C6_FixedOrder ==
  Processed =>
    IF StructurallyValid(ScannedDoc)
    THEN /\ calls = <<"structure", "proof", "expiry">>
         /\ Val(verificationResult).isValid = Val(Val(scan).proof).value
    ELSE /\ calls = <<"structure">>
         /\ FormatError(Val(verificationResult))

\* processQRCode is under way.
Processing == pcV \in {"awaitImage", "awaitDecode", "awaitVerify"}

\* Once a scan is over there is a result and the page is not processing; a
\* text that is no JSON got the invalid-JSON rejection.
C7_ResultState ==
  (pcV = "idle" /\ scan # Null) =>
    /\ verificationResult # Null
    /\ ~isProcessing
    /\ (Val(scan).qrData # Null /\ ScannedDoc.kind = "syntaxError") =>
         Val(verificationResult) =
           [ isValid |-> FALSE, isExpired |-> FALSE, zkCredential |-> Null,
             error |-> <<ProcessFailed, NoJSON>> ]

\* C7: every scan ends in a verification result, whatever string it
\* delivered, and a string that is no JSON ends in the invalid-JSON
\* rejection (isValid false, no credential).
C7_AlwaysAResult ==
  /\ [](C7_ResultState)
  /\ Processing ~> (pcV = "idle" /\ verificationResult # Null)

\* A string that is no JSON has been rejected.
C7_Witness ==
  /\ Processed
  /\ ScannedDoc.kind = "syntaxError"
  /\ ~Val(scan).qrData[1].pixelPass
  /\ Val(verificationResult).error = <<ProcessFailed, NoJSON>>

(***************************************************************************)
(* Properties of the credential builder.                                   *)
(***************************************************************************)
\* floor((now - birthDate) / 365.25 days) >= 18, without a division: now is
\* not before the instant 18 * 365.25 days after the birth.
AdultAt(now, dateOfBirth) ==
  ~Later(MsAdd(dateOfBirth, Instant(18 * 36525 * 864, 0)), now)

\* C11: the over18 of a built credential is
\* floor((now - birthDate) / 365.25 days) >= 18, and validateAge answers
\* isValid with the same value for the same birth date and now.
C11_AgeClaimIsFloorOfJulianYears ==
  credential # Null =>
    /\ Val(credential).over18 = AdultAt(Val(input).now, Val(input).dateOfBirth)
    /\ validateAge(Val(input).dateOfBirth, Val(input).now).isValid
         = Val(credential).over18

\* A holder born 2006-01-01 at 2024-01-01: 6574 days, 18 years of 365 days
\* but not of 365.25 days.
C11_Witness ==
  /\ credential # Null
  /\ Val(input).dateOfBirth = Instant(13149 * 86400, 0)
  /\ Val(input).now = Instant(BaseNow, 0)
  /\ ~Val(credential).over18

\* C12: no credential is built for a name that is empty or only white space.
C12_NoCredentialForBlankName ==
  credential # Null => Trim(Val(input).name) # <<>>

(***************************************************************************)
(* Properties of the commitment proof.                                     *)
(***************************************************************************)
\* A string of decimal digits, and the number it denotes.
IsDecimal(str) == str # <<>> /\ \A i \in DOMAIN str : str[i] \in 48..57
RECURSIVE ParseDecimal(_)
ParseDecimal(str) ==
  IF str = <<>> THEN 0
  ELSE 10 * ParseDecimal(SubSeq(str, 1, Len(str) - 1)) + (str[Len(str)] - 48)

\* A JavaScript string: a sequence of UTF-16 code units.
IsString(v) == v \in Seq(0..65535)

\* C13: the publicSignals of every generated credential are the four strings
\* "1", the reference year, the minimum age and the commitment of the
\* credential, in this order.
C13_PublicSignalsShape ==
  zkCredential # Null =>
    LET publicSignals == Val(zkCredential).zkProof.publicSignals
    IN  /\ Len(publicSignals) = 4
        /\ \A i \in 1..4 : IsString(publicSignals[i])
        /\ publicSignals[1] = <<49>>
        /\ IsDecimal(publicSignals[2])
        /\ ParseDecimal(publicSignals[2]) = Val(run).currentYear
        /\ IsDecimal(publicSignals[3])
        /\ ParseDecimal(publicSignals[3]) = 18
        /\ publicSignals[4] = Val(zkCredential).commitment

\* A credential generated at 2024-01-01T00:00Z in New York: the reference
\* year is the local year 2023.
C13_Witness ==
  /\ zkCredential # Null
  /\ tzOffset = -300
  /\ Val(run).currentYear = 2023
  /\ Val(zkCredential).zkProof.publicSignals[2] = <<50, 48, 50, 51>>

\* The credential that verifyZKProof was called with, and what it answered.
ProofChecked == scan # Null /\ Val(scan).proof # Null
CheckedCredential == Val(Val(scan).decoded).value
ProofOutcome == Val(Val(scan).proof)

\* c is the generated credential g with its commitment or one of its public
\* signals (claim flag, reference year, minimum age, commitment) altered.
AlteredFrom(g, c) ==
  /\ c.metadata = g.metadata
  /\ Val(c.zkProof).proof = Val(g.zkProof).proof
  /\ Len(Val(Val(c.zkProof).publicSignals)) = 4
  /\ <<c.commitment, Val(c.zkProof).publicSignals>>
       # <<g.commitment, Val(g.zkProof).publicSignals>>

\* C14: verifyZKProof answers true for a generated credential as it was
\* generated, and false once its reference year, minimum age, claim flag or
\* commitment has been altered.
C14_ProofDetectsAlteration ==
  ProofChecked =>
    /\ CheckedCredential \in Genuine => ProofOutcome = Returned(TRUE)
    /\ (\E g \in Genuine : AlteredFrom(g, CheckedCredential))
         => ProofOutcome = Returned(FALSE)

\* A credential with its reference year set to 2030 has been refused.
C14_Witness ==
  /\ ProofChecked
  /\ \E g \in Genuine : AlteredFrom(g, CheckedCredential)
  /\ Val(Val(CheckedCredential.zkProof).publicSignals)[2] = NumberToString(2030)
  /\ ProofOutcome = Returned(FALSE)

(***************************************************************************)
(* Properties of the transport.                                            *)
(***************************************************************************)
\* The bytes that signCredential and verifyCredential work on.
SignedBytes(c) == TextEncode(StringifyCredential(c))

\* C15: the signed credential that went through JSON.stringify, the QR code
\* and JSON.parse re-serializes to the bytes that were signed, and carries
\* the signature that was made.
C15_TransportKeepsSignedBytes ==
  (signed # Null /\ tamper = "none") =>
    /\ SignedBytes(Val(presented).payload) = SignedBytes(Val(credential))
    /\ Val(presented).signature = Val(signed).signature

\* A credential whose name needs an escape in JSON has been transported.
C15_Witness ==
  /\ signed # Null
  /\ tamper = "none"
  /\ Val(credential).name = <<65, 34>>
  /\ Val(presented).payload.name = <<65, 34>>

(***************************************************************************)
(* Properties of the lazy set-up.                                          *)
(***************************************************************************)
\* C16: whatever the interleaving of the calls of signCredential,
\* verifyCredential and generateKeyPair, setupCrypto runs at most once.
C16_SetupRunsAtMostOnce == setupRuns <= 1

(***************************************************************************)
(* Properties of what the verifying page shows.                            *)
(***************************************************************************)
\* What the last scan came to, by the first check that failed: "format" (no
\* QR code, no credential in it, or the proof check failed to run),
\* "invalid" (the proof check answered false), "expired" (it answered true
\* and the expiry check answered true), "valid".
ScanOutcome ==
  LET sc == Val(scan)
  IN  IF sc.qrData = Null \/ Val(sc.decoded).threw \/ Val(sc.proof).threw
      THEN "format"
      ELSE IF ~Val(sc.proof).value THEN "invalid"
      ELSE IF isZKCredentialExpired(Val(sc.decoded).value, Val(sc.now))
      THEN "expired"
      ELSE "valid"

\* What the page shows of a result: the status text and the error message.
Shown == <<getStatusText(verificationResult), Val(verificationResult).error>>

\* The outcome as a reader of the page tells it from what is shown.
OutcomeRead(shown) ==
  IF shown[2] = InvalidProof THEN "invalid"
  ELSE IF shown[2] # Null THEN "format"
  ELSE IF shown[1] = "ZK Credential Expired" THEN "expired"
  ELSE IF shown[1] = "Valid ZK Proof" THEN "valid"
  ELSE "unknown"

C18_DecodeReturnsOnlyWellTyped ==
  (scan # Null /\ Val(scan).decoded # Null /\ ~Val(Val(scan).decoded).threw)
    => StructurallyValid(ScannedDoc)

\* The stage of decodeZKCredentialFromQR that produced the decoded text:
\* PixelPass.decode when it returns, the raw input when it throws.
StageOf(qrData) ==
  IF PixelPassDecode(qrData).threw THEN "raw" ELSE "pixelPass"

\* C19: decoding tries PixelPass first and parses the raw input only when
\* that fails, and the outcome of decoding tells which stage succeeded: no
\* input decoded by the other stage yields the same outcome.
C19_OutcomeTellsStage ==
  (scan # Null /\ Val(scan).decoded # Null /\ ~Val(Val(scan).decoded).threw)
    => \A other \in QrInputs :
         StageOf(other) # StageOf(Val(Val(scan).qrData))
           => decodeZKCredentialFromQR(other) # Val(Val(scan).decoded)

(***************************************************************************)
(* The two age checks compared.                                            *)
(***************************************************************************)
\* C20: whenever handleGenerateCredential produces a credential, the holder
\* of the birth date in the form is at least 18 by the computation of
\* validateAge, floor((now - birthDate) / 365.25 days) >= 18.
C20_IssuedOnlyToAdults ==
  [][(zkCredential = Null /\ zkCredential' # Null)
       => validateAge(DateFromInput(Val(formDateOfBirth)), clock).isValid]_vars

(***************************************************************************)
(* Properties of concurrent signing and verifying.                         *)
(***************************************************************************)
\* What a call returns when it runs alone: ensureCryptoReady has set the
\* hash before the body runs.
Alone(c, arg) == CallBody(c, arg, TRUE)

\* The call of c has returned.
CallDone(c) == callRun[c] # Null /\ Val(callRun[c]).out # Null

\* C21: whatever the interleaving of the calls, also of calls that overlap
\* the first set-up, signCredential and verifyCredential return what they
\* return alone, and their bodies run only with the SHA-512 hash set.
C21_CallsDoNotInterfere ==
  \A c \in {"signCredential", "verifyCredential"} :
    CallDone(c) =>
      /\ Val(callRun[c]).hash
      /\ Val(Val(callRun[c]).out) = Alone(c, Val(callRun[c]).arg)

\* Both have returned after each of them ran the set-up, the signing with a
\* signature.
C21_Witness ==
  /\ CallDone("signCredential")
  /\ CallDone("verifyCredential")
  /\ setupRuns >= 2
  /\ ~Val(Val(callRun["signCredential"]).out).threw
  /\ Val(Val(callRun["signCredential"]).out).value.signature # Null

(***************************************************************************)
(* Properties of the status the verifying page shows.                      *)
(***************************************************************************)
\* The result is a valid proof, not expired, with no error.
CleanResult(result) ==
  Val(result).isValid /\ ~Val(result).isExpired /\ Val(result).error = Null

\* C22: the status 'Valid ZK Proof', its icon and the class 'valid' show only
\* for a result that is valid, not expired and without error; a result that
\* has no credential shows neither as valid nor as expired.
C22_ValidShownOnlyForCleanResult ==
  verificationResult # Null =>
    /\ getStatusText(verificationResult) = "Valid ZK Proof"
         => CleanResult(verificationResult)
    /\ getStatusIcon(verificationResult) = "check"
         => CleanResult(verificationResult)
    /\ ResultClassName(verificationResult) = "valid"
         => CleanResult(verificationResult)
    /\ Val(verificationResult).zkCredential = Null
         => /\ ResultClassName(verificationResult) = "invalid"
            /\ getStatusText(verificationResult) = "ZK Proof Verification Failed"
            /\ getStatusIcon(verificationResult) = "cross"

\* A genuine credential in time shows as valid.
C22_Witness ==
  /\ verificationResult # Null
  /\ CleanResult(verificationResult)
  /\ Val(verificationResult).zkCredential # Null
  /\ getStatusText(verificationResult) = "Valid ZK Proof"
  /\ ResultClassName(verificationResult) = "valid"

(***************************************************************************)
(* Properties of the camera.                                               *)
(***************************************************************************)
\* C23: whenever isScanning is false, no camera stream is held: streamRef
\* is null and every stream acquired has had its tracks stopped, also when
\* the camera was stopped while startCamera was waiting.
C23_NoStreamUnlessScanning ==
  ~isScanning => (streamRef = Null /\ liveStreams = {})

\* The runs of processQRCode in flight.
InFlight ==
  Cardinality({r \in CameraRuns : camPc[r] \in {"awaitDecodeZK", "awaitVerify"}})
    + (IF pcV \in {"awaitDecode", "awaitVerify"} THEN 1 ELSE 0)

\* C24: a camera run or an upload that finishes, and so sets
\* verificationResult, is the scan or upload started last with no reset
\* since, and at most one run of processQRCode is in flight.
C24_ResultOfLatestScan ==
  [][ /\ \A r \in CameraRuns :
           (camPc[r] # "done" /\ camPc'[r] = "done") => latest = Some(r)
      /\ (pcV # "idle" /\ pcV' = "idle") => latest = Some(Upload)
      /\ InFlight' <= 1 ]_vars

\* C25: when startCamera ends in its catch block, cameraError holds the
\* failure message, the one of the result, once startCamera has finished.
C25_CameraErrorKept ==
  [][ \A r \in CameraRuns :
        (camPc[r] \in {"awaitMedia", "awaitDecode"} /\ camPc'[r] = "done")
          => cameraError' = Some(Val(verificationResult').error) ]_vars

(***************************************************************************)
(* Properties of the signature string.                                     *)
(***************************************************************************)
\* The signature string signCredential produces for the payload presented.
CanonicalSignature == signCredential(Val(presented).payload).signature

QrDisplayed == qrDataUrl # Null /\ zkCredential # Null

\* Loading lasts exactly as long as the run waits, and the image shown is
\* the one of the credential that the last run made.
LoadingWhileRunning ==
  /\ isLoading <=> pcC \in {"awaitProof", "awaitQr"}
  /\ QrDisplayed =>
       /\ run # Null
       /\ zkCredential = Val(run).zkCred
       /\ qrDataUrl = Some([image |-> Val(zkCredential)])

\* C27: a run of handleGenerateCredential that set isLoading has it false
\* when it ends, on success, on the age refusal and on an error thrown; while
\* isLoading is true no other run starts; the QR image shows only with
\* qrDataUrl and zkCredential set by one run.
C27_LoadingEndsAndOneRun ==
  [][ /\ LoadingWhileRunning'
      /\ (isLoading /\ pcC' = "awaitProof") => UNCHANGED <<pcC, run>> ]_vars

\* A run has ended on an error thrown by encodeZKCredentialToQR: loading is
\* over, the credential is set and no image shows.
C27_Witness ==
  /\ pcC = "returned"
  /\ ~isLoading
  /\ error = GenerateFailed
  /\ zkCredential # Null
  /\ ~QrDisplayed

====
